---- MODULE Spec2Model ----
(***************************************************************************)
(* Model of the trakscape-fleet telemetry agent: the SQLite record store   *)
(* (modules/data_buffer.py, DataBuffer), the Firebase dispatcher           *)
(* (modules/firebase_sync.py, FirebaseSync) and the agent that wires them  *)
(* (main.py, FleetTracker).                                                *)
(*                                                                         *)
(* The specifications are defined over the same variables:                 *)
(*   StoreSpec    the DataBuffer API called in any order by a client;      *)
(*   ExtrasSpec   inserts of dicts with extra attributes, and claims;      *)
(*   KeysSpec     inserts of dicts with the key 'id', claims and reports;   *)
(*   ThreadsSpec  the DataBuffer methods statement by statement, called    *)
(*                by several threads;                                      *)
(*   Spec         the running agent (producer, sync_worker, main loop);    *)
(*   FairSpec     Spec with the scheduling fairness of its threads.        *)
(***************************************************************************)
EXTENDS Integers, Sequences, FiniteSets, TLC

(***************************************************************************)
(* Bounds of the model.                                                    *)
(***************************************************************************)
\* rows a store client inserts at most (StoreSpec)
MaxRows == 3
\* clock ticks that pass at most after the start
MaxTicks == 1
\* clock ticks per calendar day (a day of the model has this many instants)
TicksPerDay == 2
\* storage I/O failures injected at most
MaxFaults == 1
\* cap of retry_count in the guard of increment_retry (the code has none)
MaxRetryCount == 6
\* GPS fixes the tracker produces at most (Spec)
MaxFix == 2
\* sync_worker threads alive at once at most
MaxWorkers == 2
\* runs of main() after the first at most
MaxRestarts == 1
\* failed uploads at most, summed over the fixes they held (the code has no cap)
MaxFailedPushes == 6
\* configuration: firebase.batch_size
BatchSize == 2
\* configuration: firebase.sync_interval, in ticks
SyncInterval == 1
\* configuration: buffer.cleanup_interval, in ticks
CleanupInterval == 0
\* configuration: buffer.retention_days (0: a record is past the retention
\* window as soon as the clock has moved on)
RetentionDaysConfig == 0

(***************************************************************************)
(* Program constants.                                                      *)
(***************************************************************************)
\* "retry_count < 5" / "retry_count >= 5"
MaxRetry == 5
\* CURRENT_TIMESTAMP is 'YYYY-MM-DD HH:MM:SS': the separator is a space
SepSpace == 32
\* datetime.isoformat() is 'YYYY-MM-DDTHH:MM:SS.ffffff': the separator is 'T'
SepT == 84
\* the column default of priority, and the default of the priority parameter
DefaultPriority == 0

\* the first instant of the model: the second tick of day 2
StartTime == 2 * TicksPerDay + 1
\* priorities a store client passes
Priorities == {0, 5}
\* retention windows (days) passed to cleanup_old_data
RetentionDays == {0, 1}
\* offsets (ticks) of the local clock, datetime.now(), from UTC: a device on
\* UTC, and one whose local time is behind UTC
TzOffsets == {0 - 1, 0}
\* batch_size arguments of get_unsynced_batch
Limits == 1..MaxRows

VARIABLES
    db,         \* the table gps_buffer as self.conn sees it (open transaction included)
    disk,       \* the table as last committed to the database file
    now,        \* the UTC clock, in ticks
    tz,         \* offset of the local clock from UTC
    faults,     \* storage failures injected so far
    okInserts,  \* history: insert_location calls that returned True
    assigned,   \* history: the ids those calls gave their rows, in call order
    lock,       \* DataBuffer.lock: "free", or the thread that holds it
    calls,      \* per calling thread, the DataBuffer method it is inside and how far
    reclaimed,  \* history: rows deleted by cleanup_old_data
    marked,     \* history: ids of rows a mark_synced call that returned True updated
    retried,    \* history: per id, the increment_retry calls that returned True for it
    conn,       \* self.conn: "open" after initialize(), "closed" after close()
    running,        \* FleetTracker.running
    stop_event,     \* FleetTracker.stop_event
    fs_app,         \* FirebaseSync.app is set (initialize() succeeded)
    fs_running,     \* FirebaseSync.running
    fs_stop_event,  \* FirebaseSync.stop_event
    sync_queue,     \* FirebaseSync.sync_queue
    workers,        \* the sync_worker threads: position, local batch, last_sync, item
    gps_running,    \* GPSTracker.running
    main_pc,        \* position of the main loop of FleetTracker.start
    last_cleanup,   \* last_cleanup of the main loop
    fixes,          \* GPS fixes produced so far
    restarts,       \* runs of main() after the first
    enqueued,       \* history: fixes whose insert_location call returned True
    delivered,      \* history: fixes that were in a batch_upload that returned True
    failedPushes    \* history: per fix, the batch_upload calls holding it that failed

storeVars ==
    <<db, disk, conn, now, tz, faults, okInserts, assigned, lock, calls, reclaimed, marked,
      retried>>

agentVars ==
    <<running, stop_event, fs_app, fs_running, fs_stop_event, sync_queue, workers,
      gps_running, main_pc, last_cleanup, fixes, restarts, enqueued, delivered,
      failedPushes>>

vars == <<storeVars, agentVars>>

(***************************************************************************)
(* Time and its two text formats.                                          *)
(***************************************************************************)
\* CURRENT_TIMESTAMP: the UTC time as text, date then ' ' then time of day
SqlTimestamp(t) == <<t \div TicksPerDay, SepSpace, t % TicksPerDay>>

\* datetime.isoformat(): date then 'T' then time of day
IsoFormat(t) == <<t \div TicksPerDay, SepT, t % TicksPerDay>>

\* SQLite's comparison of two TEXT values (BINARY collation: memcmp)
TextLess(a, b) ==
    \E i \in 1..Len(a) :
        /\ i <= Len(b)
        /\ a[i] < b[i]
        /\ \A j \in 1..(i - 1) : a[j] = b[j]

\* the instant a stored timestamp text denotes
InstantOf(ts) == ts[1] * TicksPerDay + ts[3]

Min(a, b) == IF a <= b THEN a ELSE b

(***************************************************************************)
(* The extra attribute of a location dict and its way through the column   *)
(* compressed_data: json.dumps, gzip.compress, gzip.decompress, json.loads.*)
(* The attribute is [name, kind, keys, items]: its key in the dict, the     *)
(* type of its value, the type of the keys of the value (for a dict) and   *)
(* the content of the value as numbers; a JSON text is [name, type, items].*)
(***************************************************************************)
\* the location dict has no key outside the core fields
NoExtra == [name |-> "none", kind |-> "absent", keys |-> "none", items |-> <<>>]

\* values of the extra attribute: "123.4", 7, True, None, [1, 2], (1, 2),
\* {"1": 2} and {1: 2}
PyValues ==
    {[name |-> "valid", kind |-> "str",   keys |-> "none", items |-> <<49, 50, 51, 46, 52>>],
     [name |-> "valid", kind |-> "int",   keys |-> "none", items |-> <<7>>],
     [name |-> "valid", kind |-> "bool",  keys |-> "none", items |-> <<1>>],
     [name |-> "valid", kind |-> "none",  keys |-> "none", items |-> <<>>],
     [name |-> "valid", kind |-> "list",  keys |-> "none", items |-> <<1, 2>>],
     [name |-> "valid", kind |-> "tuple", keys |-> "none", items |-> <<1, 2>>],
     [name |-> "valid", kind |-> "dict",  keys |-> "str",  items |-> <<1, 2>>],
     [name |-> "valid", kind |-> "dict",  keys |-> "int",  items |-> <<1, 2>>]}

\* the extra attribute under the key 'id', which is not one of the keys
\* insert_location leaves out of extra_data: {'id': 7} (no row has this id)
\* and {'id': 2} (the id of another row)
IdValues ==
    {[name |-> "id", kind |-> "int", keys |-> "none", items |-> <<7>>],
     [name |-> "id", kind |-> "int", keys |-> "none", items |-> <<2>>]}

\* json.dumps(value): lists and tuples both become arrays, the keys of a dict
\* become strings
JsonDumps(v) ==
    [name  |-> v.name,
     type  |-> CASE v.kind = "str"               -> "string"
                 [] v.kind = "int"               -> "number"
                 [] v.kind = "bool"              -> "boolean"
                 [] v.kind = "none"              -> "null"
                 [] v.kind \in {"list", "tuple"} -> "array"
                 [] v.kind = "dict"              -> "object",
     items |-> v.items]

\* json.loads(text): an array becomes a list, an object a dict with str keys
JsonLoads(j) ==
    [name  |-> j.name,
     kind  |-> CASE j.type = "string"  -> "str"
                 [] j.type = "number"  -> "int"
                 [] j.type = "boolean" -> "bool"
                 [] j.type = "null"    -> "none"
                 [] j.type = "array"   -> "list"
                 [] j.type = "object"  -> "dict",
     keys  |-> IF j.type = "object" THEN "str" ELSE "none",
     items |-> j.items]

\* gzip.compress(text.encode()) and gzip.decompress(blob).decode(): lossless
GzipCompress(j) == [gzip |-> j]

GzipDecompress(b) == b.gzip

\* the column value NULL (no compressed text)
NullBlob == [gzip |-> [name |-> "none", type |-> "NULL", items |-> <<>>]]

\* compressed = gzip.compress(json.dumps(extra_data).encode()) if extra_data
CompressedData(location) ==
    IF location.extra = NoExtra THEN NullBlob
    ELSE GzipCompress(JsonDumps(location.extra))

\* if row['compressed_data']: extra = json.loads(gzip.decompress(...).decode())
ExtraOf(blob) ==
    IF blob = NullBlob THEN NoExtra ELSE JsonLoads(GzipDecompress(blob))

(***************************************************************************)
(* The table and the SQL statements of DataBuffer.                         *)
(***************************************************************************)
EmptyDb == [rows |-> {}, seq |-> 0]

\* the largest of a set of naturals (0 for the empty set)
MaxOf(S) == IF S = {} THEN 0 ELSE CHOOSE x \in S : \A y \in S : y <= x

\* a faulty variant: id INTEGER PRIMARY KEY without AUTOINCREMENT (largest rowid + 1)
NewRow_ReuseRowid(d, location, priority, t) ==
    [id |-> MaxOf({r.id : r \in d.rows}) + 1, ts |-> SqlTimestamp(t),
     loc |-> location.fix, synced |-> 0, priority |-> priority, retry_count |-> 0,
     compressed_data |-> CompressedData(location), extra_in |-> location.extra]

\* INSERT INTO gps_buffer (...): id from AUTOINCREMENT, timestamp, synced and
\* retry_count from the column defaults, the extra attribute compressed
\* (extra_in is history: the attribute as it was passed)
NewRow(d, location, priority, t) ==
    [id |-> d.seq + 1, ts |-> SqlTimestamp(t), loc |-> location.fix, synced |-> 0,
     priority |-> priority, retry_count |-> 0,
     compressed_data |-> CompressedData(location), extra_in |-> location.extra]

SqlInsert(d, location, priority, t) ==
    [rows |-> d.rows \cup {NewRow(d, location, priority, t)}, seq |-> d.seq + 1]

\* a faulty variant: the retry filter is left out of the WHERE clause
Eligible_NoRetryFilter(d) == {r \in d.rows : r.synced = 0}

\* a faulty variant: the retry filter is off by one (retry_count <= 5)
Eligible_OffByOne(d) == {r \in d.rows : r.synced = 0 /\ r.retry_count <= MaxRetry}

\* WHERE synced = 0 AND retry_count < 5
Eligible(d) == {r \in d.rows : r.synced = 0 /\ r.retry_count < MaxRetry}

\* a faulty variant: ORDER BY priority without DESC
SortsBefore_PriorityAsc(r, q) ==
    \/ r.priority < q.priority
    \/ r.priority = q.priority /\ TextLess(r.ts, q.ts)
    \/ r.priority = q.priority /\ r.ts = q.ts /\ r.id < q.id

\* ORDER BY priority DESC, timestamp ASC, read off the index idx_synced
\* (synced, priority DESC, timestamp): entries equal in the indexed columns are
\* kept in rowid order.  r is returned before q
SortsBefore(r, q) ==
    \/ r.priority > q.priority
    \/ r.priority = q.priority /\ TextLess(r.ts, q.ts)
    \/ r.priority = q.priority /\ r.ts = q.ts /\ r.id < q.id

\* SELECT * ... ORDER BY ... LIMIT ?: the first `limit` eligible rows
SqlSelectUnsynced(d, limit) ==
    LET E == Eligible(d)
        n == Min(limit, Cardinality(E))
    IN  CHOOSE s \in [1..n -> E] :
            /\ \A i, j \in 1..n : i < j => SortsBefore(s[i], s[j])
            /\ \A r \in E : (\A i \in 1..n : s[i] # r) =>
                               \A i \in 1..n : SortsBefore(s[i], r)

\* a faulty variant: the decompressed attributes are not merged into the dict
RowDict_WithoutExtra(r) ==
    [id |-> r.id, timestamp |-> r.ts, loc |-> r.loc, extra |-> NoExtra]

\* the dict get_unsynced_batch builds from a row: the columns, updated with
\* the decompressed extra attributes (data.update(extra)): an attribute
\* under the key 'id' replaces the id of the row (the values under that key
\* are integers here)
RowDict(r) ==
    LET extra == ExtraOf(r.compressed_data)
    IN  [id |-> IF extra.name = "id" THEN extra.items[1] ELSE r.id,
         timestamp |-> r.ts, loc |-> r.loc, extra |-> extra]

\* a faulty variant: the UPDATE has no WHERE clause
SqlMarkSynced_NoWhere(d, ids) ==
    [d EXCEPT !.rows = {[r EXCEPT !.synced = 1] : r \in d.rows}]

\* UPDATE gps_buffer SET synced = 1 WHERE id IN (...)
SqlMarkSynced(d, ids) ==
    [d EXCEPT !.rows = {IF r.id \in ids THEN [r EXCEPT !.synced = 1] ELSE r : r \in d.rows}]

\* UPDATE gps_buffer SET retry_count = retry_count + 1 WHERE id IN (...)
SqlIncrementRetry(d, ids) ==
    [d EXCEPT !.rows = {IF r.id \in ids THEN [r EXCEPT !.retry_count = @ + 1] ELSE r
                        : r \in d.rows}]

\* the cutoff of cleanup_old_data: local time minus the window, as ISO text
Cutoff(t, offset, days) == IsoFormat(t + offset - days * TicksPerDay)

\* the rows DELETE ... WHERE synced = 1 AND timestamp < ? removes
Expired(d, cutoff) == {r \in d.rows : r.synced = 1 /\ TextLess(r.ts, cutoff)}

\* a faulty variant: deleting rows also lowers the id counter to the largest id
\* left (as for a table without AUTOINCREMENT)
SqlDeleteOld_ResetsSequence(d, cutoff) ==
    [rows |-> d.rows \ Expired(d, cutoff),
     seq  |-> MaxOf({r.id : r \in d.rows \ Expired(d, cutoff)})]

\* DELETE FROM gps_buffer WHERE synced = 1 AND timestamp < ?
SqlDeleteOld(d, cutoff) == [d EXCEPT !.rows = d.rows \ Expired(d, cutoff)]

\* the rows each COUNT(*) query of get_stats counts
TotalRows(d) == d.rows

UnsyncedRows(d) == {r \in d.rows : r.synced = 0}

FailedRows(d) == {r \in d.rows : r.retry_count >= MaxRetry}

Stats(d) ==
    [total    |-> Cardinality(TotalRows(d)),
     unsynced |-> Cardinality(UnsyncedRows(d)),
     failed   |-> Cardinality(FailedRows(d))]

(***************************************************************************)
(* Transactions.  Every writing method runs its statement and then         *)
(* self.conn.commit() inside one try block; an exception at either place   *)
(* is logged and turned into the failure value, with no rollback.          *)
(*   ok               the statement and the commit succeed                 *)
(*   exec_error       the statement raises: nothing is changed             *)
(*   commit_error     commit() raises and the transaction stays open       *)
(*   commit_rollback  commit() raises and SQLite rolls the transaction back*)
(*   vacuum_error     (cleanup only) VACUUM raises after the commit        *)
(***************************************************************************)
WriteOutcomes == {"ok", "exec_error", "commit_error", "commit_rollback"}

ReadOutcomes == {"ok", "exec_error"}

\* a faulty variant: VACUUM runs before the commit, so its failure leaves the
\* DELETE uncommitted
Transact_VacuumBeforeCommit(newdb, outcome) ==
    CASE outcome = "ok"                             -> [db |-> newdb, disk |-> newdb]
      [] outcome = "exec_error"                     -> [db |-> db, disk |-> disk]
      [] outcome \in {"commit_error", "vacuum_error"} -> [db |-> newdb, disk |-> disk]
      [] outcome = "commit_rollback"                -> [db |-> disk, disk |-> disk]

\* the table as the connection sees it and as committed, after a statement that
\* leaves the connection's view at newdb ended with the given outcome
Transact(newdb, outcome) ==
    CASE outcome \in {"ok", "vacuum_error"} -> [db |-> newdb, disk |-> newdb]
      [] outcome = "exec_error"             -> [db |-> db, disk |-> disk]
      [] outcome = "commit_error"           -> [db |-> newdb, disk |-> disk]
      [] outcome = "commit_rollback"        -> [db |-> disk, disk |-> disk]

\* an injected failure is counted; a call on a closed store does no I/O
Inject(outcome) ==
    /\ outcome # "ok" => faults < MaxFaults /\ conn = "open"
    /\ faults' = IF outcome = "ok" THEN faults ELSE faults + 1

(***************************************************************************)
(* The methods of DataBuffer.  Each runs under self.lock, as one step: it   *)
(* waits until the lock is free and has released it when the step ends.    *)
(* A method called on a closed store (self.conn is None) raises at         *)
(* self.conn.cursor(); the except clause returns the failure value.        *)
(***************************************************************************)
\* the value insert_location returns: location.complete says whether the dict has
\* the keys 'latitude' and 'longitude' (a missing key raises KeyError)
InsertReturn(location, outcome) ==
    conn = "open" /\ location.complete /\ outcome = "ok"

\* a faulty variant: a missing latitude or longitude is read with a default
\* (location.get('latitude', 0)) and the row is inserted
insert_location_NoValidation(location, priority, outcome) ==
    /\ lock = "free"
    /\ Inject(outcome)
    /\ IF conn = "closed"
       THEN /\ outcome = "ok"
            /\ UNCHANGED <<db, disk>>
       ELSE LET t == Transact(SqlInsert(db, location, priority, now), outcome)
            IN  /\ db' = t.db
                /\ disk' = t.disk
    /\ okInserts' = IF conn = "open" /\ outcome = "ok" THEN okInserts + 1 ELSE okInserts
    /\ assigned' = IF conn = "open" /\ outcome = "ok"
                   THEN Append(assigned, NewRow(db, location, priority, now).id)
                   ELSE assigned
    /\ UNCHANGED <<conn, now, tz, lock, calls, reclaimed, marked, retried>>

insert_location(location, priority, outcome) ==
    /\ lock = "free"
    /\ Inject(outcome)
    /\ IF conn = "closed" \/ ~location.complete
       THEN /\ outcome = "ok"
            /\ UNCHANGED <<db, disk>>
       ELSE LET t == Transact(SqlInsert(db, location, priority, now), outcome)
            IN  /\ db' = t.db
                /\ disk' = t.disk
    /\ okInserts' = IF InsertReturn(location, outcome) THEN okInserts + 1 ELSE okInserts
    /\ assigned' = IF InsertReturn(location, outcome)
                   THEN Append(assigned, NewRow(db, location, priority, now).id)
                   ELSE assigned
    /\ UNCHANGED <<conn, now, tz, lock, calls, reclaimed, marked, retried>>

\* the list get_unsynced_batch returns ([] when anything raised)
BatchReturn(batch_size, outcome) ==
    IF conn = "closed" \/ outcome # "ok"
    THEN <<>>
    ELSE LET s == SqlSelectUnsynced(db, batch_size)
         IN  [i \in 1..Len(s) |-> RowDict(s[i])]

\* a faulty variant: the rows returned are marked synced by the claim
get_unsynced_batch_Destructive(batch_size, outcome) ==
    /\ lock = "free"
    /\ Inject(outcome)
    /\ LET b == BatchReturn(batch_size, outcome)
           d == SqlMarkSynced(db, {b[i].id : i \in 1..Len(b)})
       IN  db' = d /\ disk' = d
    /\ UNCHANGED <<conn, now, tz, okInserts, assigned, lock, calls, reclaimed, marked, retried>>

\* get_unsynced_batch(batch_size) reads and changes nothing
get_unsynced_batch(batch_size, outcome) ==
    /\ lock = "free"
    /\ Inject(outcome)
    /\ UNCHANGED <<db, disk, conn, now, tz, okInserts, assigned, lock, calls, reclaimed, marked, retried>>

\* the ids of `ids` that name a row
Known(ids) == {r.id : r \in {q \in db.rows : q.id \in ids}}

\* mark_synced(ids)
mark_synced(ids, outcome) ==
    /\ lock = "free"
    /\ Inject(outcome)
    /\ IF conn = "closed"
       THEN /\ outcome = "ok"
            /\ UNCHANGED <<db, disk, marked>>
       ELSE LET t == Transact(SqlMarkSynced(db, ids), outcome)
            IN  /\ db' = t.db
                /\ disk' = t.disk
                /\ marked' = IF outcome = "ok" THEN marked \cup Known(ids) ELSE marked
    /\ UNCHANGED <<conn, now, tz, okInserts, assigned, lock, calls, reclaimed, retried>>

\* increment_retry(ids)
increment_retry(ids, outcome) ==
    /\ lock = "free"
    /\ Inject(outcome)
    /\ \A r \in db.rows : r.id \in ids => r.retry_count < MaxRetryCount
    /\ IF conn = "closed"
       THEN /\ outcome = "ok"
            /\ UNCHANGED <<db, disk, retried>>
       ELSE LET t == Transact(SqlIncrementRetry(db, ids), outcome)
            IN  /\ db' = t.db
                /\ disk' = t.disk
                /\ retried' = IF outcome = "ok"
                              THEN [i \in DOMAIN retried |->
                                       IF i \in Known(ids) THEN retried[i] + 1
                                       ELSE retried[i]]
                              ELSE retried
    /\ UNCHANGED <<conn, now, tz, okInserts, assigned, lock, calls, reclaimed, marked>>

\* the value cleanup_old_data returns: cursor.rowcount, or 0 when anything raised
CleanupReturn(days, outcome) ==
    IF conn = "closed" \/ outcome # "ok"
    THEN 0
    ELSE Cardinality(Expired(db, Cutoff(now, tz, days)))

\* cleanup_old_data(days)
cleanup_old_data(days, outcome) ==
    /\ lock = "free"
    /\ Inject(outcome)
    /\ IF conn = "closed"
       THEN /\ outcome = "ok"
            /\ UNCHANGED <<db, disk, reclaimed>>
       ELSE LET cutoff  == Cutoff(now, tz, days)
                deleted == Cardinality(Expired(db, cutoff))
                t       == Transact(SqlDeleteOld(db, cutoff), outcome)
            IN  /\ outcome = "vacuum_error" => deleted > 0
                /\ db' = t.db
                /\ disk' = t.disk
                /\ reclaimed' = IF outcome \in {"ok", "vacuum_error"}
                                THEN reclaimed + deleted ELSE reclaimed
    /\ UNCHANGED <<conn, now, tz, okInserts, assigned, lock, calls, marked, retried>>

\* the dict get_stats returns ({} when anything raised)
StatsReturn(outcome) ==
    IF conn = "closed" \/ outcome # "ok" THEN [failure |-> TRUE] ELSE Stats(db)

\* get_stats() reads and changes nothing
get_stats(outcome) ==
    /\ lock = "free"
    /\ Inject(outcome)
    /\ UNCHANGED <<db, disk, conn, now, tz, okInserts, assigned, lock, calls, reclaimed, marked, retried>>

\* close(): closing the connection discards an open transaction
close ==
    /\ conn = "open"
    /\ conn' = "closed"
    /\ db' = disk
    /\ UNCHANGED <<disk, now, tz, faults, okInserts, assigned, lock, calls, reclaimed, marked, retried>>

\* a tick of the clock
Tick ==
    /\ now < StartTime + MaxTicks
    /\ now' = now + 1
    /\ UNCHANGED <<db, disk, conn, tz, faults, okInserts, assigned, lock, calls, reclaimed, marked, retried>>

(***************************************************************************)
(* The threads that call the DataBuffer, and the method each is inside.    *)
(***************************************************************************)
\* the tracking thread (producer), a dispatcher thread and the main loop
\* (retention)
Threads == {"producer", "dispatcher", "retention"}

\* a method call: the method and its argument (ids of mark_synced and
\* increment_retry, days of cleanup_old_data)
NoOp == [name |-> "none", ids |-> {}, days |-> 0]

\* a thread that is inside no method; `view` and `file` are the table as the
\* thread's own statements left it, for the connection and committed
NoCall == [pc |-> "idle", op |-> NoOp, view |-> EmptyDb, file |-> EmptyDb]

NoCalls == [t \in Threads |-> NoCall]

(***************************************************************************)
(* StoreSpec: a client calls the methods of an initialized DataBuffer.     *)
(***************************************************************************)
\* location dicts a client passes
Locations == [fix : {1}, complete : BOOLEAN, extra : {NoExtra}]

\* id lists a client passes to mark_synced (ids above the rows inserted so far
\* are unknown ids)
IdLists == SUBSET (1..MaxRows)

\* id lists a client passes to increment_retry: none, a row, a row with an
\* unknown id
RetryIdLists == {{}, {1}, {1, MaxRows + 1}}

\* the agent is not running in StoreSpec
AgentIdle ==
    /\ running = FALSE
    /\ stop_event = FALSE
    /\ fs_app = FALSE
    /\ fs_running = FALSE
    /\ fs_stop_event = FALSE
    /\ sync_queue = <<>>
    /\ workers = <<>>
    /\ gps_running = FALSE
    /\ main_pc = "none"
    /\ last_cleanup = 0
    /\ fixes = 0
    /\ restarts = 0
    /\ enqueued = {}
    /\ delivered = {}
    /\ failedPushes = <<>>

StoreInit ==
    /\ AgentIdle
    /\ db = EmptyDb
    /\ disk = EmptyDb
    /\ conn = "open"
    /\ now = StartTime
    /\ tz \in TzOffsets
    /\ faults = 0
    /\ okInserts = 0
    /\ assigned = <<>>
    /\ lock = "free"
    /\ calls = NoCalls
    /\ reclaimed = 0
    /\ marked = {}
    /\ retried = [i \in 1..(MaxRows + 1) |-> 0]

StoreInsert ==
    \E l \in Locations, p \in Priorities, o \in WriteOutcomes :
        /\ db.seq < MaxRows
        /\ insert_location(l, p, o)
        /\ UNCHANGED agentVars

StoreClaim ==
    \E n \in Limits, o \in ReadOutcomes :
        get_unsynced_batch(n, o) /\ UNCHANGED agentVars

StoreMarkSynced ==
    \E ids \in IdLists, o \in WriteOutcomes :
        mark_synced(ids, o) /\ UNCHANGED agentVars

StoreIncrementRetry ==
    \E ids \in RetryIdLists, o \in WriteOutcomes :
        increment_retry(ids, o) /\ UNCHANGED agentVars

StoreCleanup ==
    \E d \in RetentionDays, o \in WriteOutcomes \cup {"vacuum_error"} :
        cleanup_old_data(d, o) /\ UNCHANGED agentVars

StoreStats ==
    \E o \in ReadOutcomes : get_stats(o) /\ UNCHANGED agentVars

StoreTick == Tick /\ UNCHANGED agentVars

StoreNext ==
    \/ StoreInsert
    \/ StoreClaim
    \/ StoreMarkSynced
    \/ StoreIncrementRetry
    \/ StoreCleanup
    \/ StoreStats
    \/ StoreTick

StoreSpec == StoreInit /\ [][StoreNext]_vars

(***************************************************************************)
(* ExtrasSpec: a client inserts location dicts that carry an extra         *)
(* attribute and claims them back.                                         *)
(***************************************************************************)
\* location dicts with an extra attribute
ExtraLocations == [fix : {1}, complete : {TRUE}, extra : PyValues]

ExtrasInsert ==
    \E l \in ExtraLocations, o \in WriteOutcomes :
        /\ db.seq < MaxRows
        /\ insert_location(l, DefaultPriority, o)
        /\ UNCHANGED agentVars

ExtrasNext ==
    \/ ExtrasInsert
    \/ StoreClaim
    \/ StoreTick

ExtrasSpec == StoreInit /\ [][ExtrasNext]_vars

(***************************************************************************)
(* KeysSpec: a client inserts location dicts, some with an attribute under *)
(* the key 'id', claims them and reports the ids it was given.             *)
(***************************************************************************)
\* location dicts without an extra attribute and with the key 'id'
KeyLocations == [fix : {1}, complete : {TRUE}, extra : IdValues \cup {NoExtra}]

KeysInsert ==
    \E l \in KeyLocations, o \in WriteOutcomes :
        /\ db.seq < MaxRows
        /\ insert_location(l, DefaultPriority, o)
        /\ UNCHANGED agentVars

\* the client passes the ids of a claimed batch to mark_synced
KeysMarkSynced ==
    \E n \in Limits :
        LET b == BatchReturn(n, "ok")
        IN  /\ b # <<>>
            /\ mark_synced({b[i].id : i \in 1..Len(b)}, "ok")
            /\ UNCHANGED agentVars

\* the client passes the ids of a claimed batch to increment_retry
KeysIncrementRetry ==
    \E n \in Limits :
        LET b == BatchReturn(n, "ok")
        IN  /\ b # <<>>
            /\ increment_retry({b[i].id : i \in 1..Len(b)}, "ok")
            /\ UNCHANGED agentVars

KeysNext ==
    \/ KeysInsert
    \/ StoreClaim
    \/ KeysMarkSynced
    \/ KeysIncrementRetry
    \/ StoreTick

KeysSpec == StoreInit /\ [][KeysNext]_vars

(***************************************************************************)
(* ThreadsSpec: the methods of DataBuffer statement by statement, called   *)
(* by three threads at once.  A method is `with self.lock:` (acquire), the *)
(* statement on the connection (execute), then self.conn.commit() and the  *)
(* end of the with block (commit).  The history variables of StoreSpec are *)
(* not kept here.                                                          *)
(***************************************************************************)
\* id lists the dispatcher passes
CallIdLists == {{1}, {1, 2}}

\* the calls each thread makes
CallsOf(t) ==
    CASE t = "producer"   -> {[name |-> "insert_location", ids |-> {}, days |-> 0]}
      [] t = "dispatcher" ->
             {[name |-> "get_unsynced_batch", ids |-> {}, days |-> 0]}
             \cup [name : {"mark_synced", "increment_retry"}, ids : CallIdLists,
                   days : {0}]
      [] t = "retention"  ->
             {[name |-> "get_stats", ids |-> {}, days |-> 0]}
             \cup [name : {"cleanup_old_data"}, ids : {{}}, days : RetentionDays]

\* the methods that only SELECT
ReadOps == {"get_unsynced_batch", "get_stats"}

\* the table after the statement of the call ran on table d
Statement(op, d) ==
    CASE op.name = "insert_location" ->
             SqlInsert(d, [fix |-> 1, complete |-> TRUE, extra |-> NoExtra],
                       DefaultPriority, now)
      [] op.name = "mark_synced"      -> SqlMarkSynced(d, op.ids)
      [] op.name = "increment_retry"  -> SqlIncrementRetry(d, op.ids)
      [] op.name = "cleanup_old_data" -> SqlDeleteOld(d, Cutoff(now, tz, op.days))
      [] OTHER                        -> d

\* the thread is inside a `with self.lock:` block
Inside(t) == calls[t].pc # "idle"

\* a faulty variant: the method body is entered without taking self.lock
call_acquire_NoLock(t, op) ==
    /\ calls[t].pc = "idle"
    /\ op \in CallsOf(t)
    /\ op.name = "insert_location" => db.seq < MaxRows
    /\ op.name = "increment_retry" =>
           \A r \in db.rows : r.id \in op.ids => r.retry_count < MaxRetryCount
    /\ lock' = t
    /\ calls' = [calls EXCEPT ![t] = [pc |-> "locked", op |-> op, view |-> db,
                                      file |-> disk]]
    /\ UNCHANGED <<db, disk, conn, now, tz, faults, okInserts, assigned, reclaimed,
                   marked, retried, agentVars>>

\* with self.lock: the thread waits until the lock is free and takes it
call_acquire(t, op) ==
    /\ calls[t].pc = "idle"
    /\ op \in CallsOf(t)
    /\ op.name = "insert_location" => db.seq < MaxRows
    /\ op.name = "increment_retry" =>
           \A r \in db.rows : r.id \in op.ids => r.retry_count < MaxRetryCount
    /\ lock = "free"
    /\ lock' = t
    /\ calls' = [calls EXCEPT ![t] = [pc |-> "locked", op |-> op, view |-> db,
                                      file |-> disk]]
    /\ UNCHANGED <<db, disk, conn, now, tz, faults, okInserts, assigned, reclaimed,
                   marked, retried, agentVars>>

\* cursor = self.conn.cursor(); cursor.execute(...): an exception (also the one
\* of a closed store) leaves the with block, which releases the lock
call_execute(t, outcome) ==
    /\ calls[t].pc = "locked"
    /\ outcome \in {"ok", "exec_error"}
    /\ Inject(outcome)
    /\ IF conn = "closed" \/ outcome = "exec_error"
       THEN /\ lock' = "free"
            /\ calls' = [calls EXCEPT ![t] = NoCall]
            /\ UNCHANGED db
       ELSE /\ db' = Statement(calls[t].op, db)
            /\ calls' = [calls EXCEPT ![t] = [@ EXCEPT !.pc = "executed", !.view = db']]
            /\ UNCHANGED lock
    /\ UNCHANGED <<disk, conn, now, tz, okInserts, assigned, reclaimed, marked, retried,
                   agentVars>>

\* self.conn.commit() (the methods that SELECT have none), the return and the
\* end of the with block
call_commit(t, outcome) ==
    /\ calls[t].pc = "executed"
    /\ outcome \in {"ok", "commit_error", "commit_rollback"}
    /\ calls[t].op.name \in ReadOps => outcome = "ok"
    /\ Inject(outcome)
    /\ IF conn = "closed" \/ calls[t].op.name \in ReadOps
       THEN UNCHANGED <<db, disk>>
       ELSE LET tr == Transact(db, outcome)
            IN  db' = tr.db /\ disk' = tr.disk
    /\ lock' = "free"
    /\ calls' = [calls EXCEPT ![t] = NoCall]
    /\ UNCHANGED <<conn, now, tz, okInserts, assigned, reclaimed, marked, retried,
                   agentVars>>

ThreadsAcquire == \E t \in Threads : \E op \in CallsOf(t) : call_acquire(t, op)

ThreadsExecute == \E t \in Threads, o \in {"ok", "exec_error"} : call_execute(t, o)

ThreadsCommit ==
    \E t \in Threads, o \in {"ok", "commit_error", "commit_rollback"} : call_commit(t, o)

ThreadsNext ==
    \/ ThreadsAcquire
    \/ ThreadsExecute
    \/ ThreadsCommit
    \/ StoreTick

ThreadsSpec == StoreInit /\ [][ThreadsNext]_vars

(***************************************************************************)
(* FirebaseSync: the queue and the sync_worker threads.                    *)
(***************************************************************************)
NoWorker == [pc |-> "none", batch |-> <<>>, last_sync |-> 0, attempts |-> 0]

\* a thread that starts sync_worker: batch = [], last_sync = datetime.now()
NewWorker == [pc |-> "test", batch |-> <<>>, last_sync |-> now, attempts |-> 0]

\* timedelta.seconds: the seconds of the difference within its day
Seconds(delta) == delta % TicksPerDay

Range(q) == {q[i] : i \in 1..Len(q)}

\* queue_data(data): the item put into sync_queue
QueueItem(data, attempts) == [data |-> data, attempts |-> attempts]

\* the items a failed batch is put back as: 'attempts' is taken from the item
\* got last, for every record of the batch
Requeued(batch, attempts) ==
    [i \in 1..Len(batch) |-> QueueItem(batch[i], attempts + 1)]

\* while self.running and not self.stop_event.is_set(): leaving the loop ends
\* the thread and drops its local batch
sync_worker_test(w) ==
    /\ workers[w].pc = "test"
    /\ workers' = [workers EXCEPT ![w] =
                      IF fs_running /\ ~fs_stop_event
                      THEN [@ EXCEPT !.pc = "get"]
                      ELSE NoWorker]
    /\ UNCHANGED <<storeVars, running, stop_event, fs_app, fs_running, fs_stop_event,
                   sync_queue, gps_running, main_pc, last_cleanup, fixes, restarts,
                   enqueued, delivered, failedPushes>>

\* a faulty variant: the thread takes DataBuffer.lock before a push and keeps it
sync_worker_get_HoldsLock(w) ==
    /\ workers[w].pc = "get"
    /\ IF sync_queue # <<>>
       THEN LET item  == Head(sync_queue)
                batch == Append(workers[w].batch, item.data)
                should_sync ==
                    \/ Len(batch) >= BatchSize
                    \/ Seconds(now - workers[w].last_sync) >= SyncInterval
            IN  /\ sync_queue' = Tail(sync_queue)
                /\ workers' = [workers EXCEPT ![w] =
                                  [@ EXCEPT !.batch = batch,
                                            !.attempts = IF should_sync THEN item.attempts
                                                         ELSE 0,
                                            !.pc = IF should_sync THEN "push_item"
                                                   ELSE "test"]]
                /\ lock' = IF should_sync THEN "sync_worker" ELSE lock
       ELSE /\ workers' = [workers EXCEPT ![w] =
                              [@ EXCEPT !.pc = IF workers[w].batch # <<>>
                                               THEN "push_idle" ELSE "test"]]
            /\ lock' = IF workers[w].batch # <<>> THEN "sync_worker" ELSE lock
            /\ UNCHANGED sync_queue
    /\ UNCHANGED <<db, disk, conn, now, tz, faults, okInserts, assigned, calls,
                   reclaimed, marked, retried, running, stop_event, fs_app, fs_running,
                   fs_stop_event, gps_running, main_pc, last_cleanup, fixes, restarts,
                   enqueued, delivered, failedPushes>>

\* item = self.sync_queue.get(timeout=1); batch.append(item['data']); should_sync
\* -- or queue.Empty after the timeout, with or without a pending batch
sync_worker_get(w) ==
    /\ workers[w].pc = "get"
    /\ IF sync_queue # <<>>
       THEN LET item  == Head(sync_queue)
                batch == Append(workers[w].batch, item.data)
                should_sync ==
                    \/ Len(batch) >= BatchSize
                    \/ Seconds(now - workers[w].last_sync) >= SyncInterval
            IN  /\ sync_queue' = Tail(sync_queue)
                /\ workers' = [workers EXCEPT ![w] =
                                  [@ EXCEPT !.batch = batch,
                                            !.attempts = IF should_sync THEN item.attempts
                                                         ELSE 0,
                                            !.pc = IF should_sync THEN "push_item"
                                                   ELSE "test"]]
       ELSE /\ workers' = [workers EXCEPT ![w] =
                              [@ EXCEPT !.pc = IF workers[w].batch # <<>>
                                               THEN "push_idle" ELSE "test"]]
            /\ UNCHANGED sync_queue
    /\ UNCHANGED <<storeVars, running, stop_event, fs_app, fs_running, fs_stop_event,
                   gps_running, main_pc, last_cleanup, fixes, restarts, enqueued,
                   delivered, failedPushes>>

\* the failed uploads so far, summed over the fixes 1..n they held
RECURSIVE FailedUploads(_)
FailedUploads(n) == IF n = 0 THEN 0 ELSE failedPushes[n] + FailedUploads(n - 1)

\* a faulty variant: a failed upload of the item branch puts the records back
\* on the queue and also keeps them in the batch
sync_worker_push_KeepsBatch(w, ok) ==
    /\ workers[w].pc \in {"push_item", "push_idle"}
    /\ ~ok => FailedUploads(MaxFix) < MaxFailedPushes
    /\ IF ok
       THEN /\ workers' = [workers EXCEPT ![w] =
                              [pc |-> "test", batch |-> <<>>, last_sync |-> now,
                               attempts |-> 0]]
            /\ delivered' = delivered \cup Range(workers[w].batch)
            /\ UNCHANGED <<sync_queue, failedPushes>>
       ELSE /\ failedPushes' = [k \in DOMAIN failedPushes |->
                                   IF k \in Range(workers[w].batch)
                                   THEN failedPushes[k] + 1 ELSE failedPushes[k]]
            /\ sync_queue' = IF workers[w].pc = "push_item"
                             THEN sync_queue \o
                                     Requeued(workers[w].batch, workers[w].attempts)
                             ELSE sync_queue
            /\ workers' = [workers EXCEPT ![w] = [@ EXCEPT !.pc = "test"]]
            /\ UNCHANGED delivered
    /\ UNCHANGED <<storeVars, running, stop_event, fs_app, fs_running, fs_stop_event,
                   gps_running, main_pc, last_cleanup, fixes, restarts, enqueued>>

\* a faulty variant: the exception of a failed upload is not caught and ends
\* the thread
sync_worker_push_Fatal(w, ok) ==
    /\ workers[w].pc \in {"push_item", "push_idle"}
    /\ ~ok => FailedUploads(MaxFix) < MaxFailedPushes
    /\ IF ok
       THEN /\ workers' = [workers EXCEPT ![w] =
                              [pc |-> "test", batch |-> <<>>, last_sync |-> now,
                               attempts |-> 0]]
            /\ delivered' = delivered \cup Range(workers[w].batch)
            /\ UNCHANGED <<sync_queue, failedPushes>>
       ELSE /\ failedPushes' = [k \in DOMAIN failedPushes |->
                                   IF k \in Range(workers[w].batch)
                                   THEN failedPushes[k] + 1 ELSE failedPushes[k]]
            /\ workers' = [workers EXCEPT ![w] = NoWorker]
            /\ UNCHANGED <<sync_queue, delivered>>
    /\ UNCHANGED <<storeVars, running, stop_event, fs_app, fs_running, fs_stop_event,
                   gps_running, main_pc, last_cleanup, fixes, restarts, enqueued>>

\* a faulty variant: a failed upload clears the batch and re-queues nothing
sync_worker_push_DropsBatch(w, ok) ==
    /\ workers[w].pc \in {"push_item", "push_idle"}
    /\ ~ok => FailedUploads(MaxFix) < MaxFailedPushes
    /\ IF ok
       THEN /\ workers' = [workers EXCEPT ![w] =
                              [pc |-> "test", batch |-> <<>>, last_sync |-> now,
                               attempts |-> 0]]
            /\ delivered' = delivered \cup Range(workers[w].batch)
            /\ UNCHANGED <<sync_queue, failedPushes>>
       ELSE /\ failedPushes' = [k \in DOMAIN failedPushes |->
                                   IF k \in Range(workers[w].batch)
                                   THEN failedPushes[k] + 1 ELSE failedPushes[k]]
            /\ workers' = [workers EXCEPT ![w] =
                              [@ EXCEPT !.pc = "test", !.batch = <<>>, !.attempts = 0]]
            /\ UNCHANGED <<sync_queue, delivered>>
    /\ UNCHANGED <<storeVars, running, stop_event, fs_app, fs_running, fs_stop_event,
                   gps_running, main_pc, last_cleanup, fixes, restarts, enqueued>>

\* with self.sync_lock: if self.batch_upload(device_id, batch): ... else: ...
\* `ok` is what batch_upload returns (False on any exception of the upload)
sync_worker_push(w, ok) ==
    /\ workers[w].pc \in {"push_item", "push_idle"}
    /\ ~ok => FailedUploads(MaxFix) < MaxFailedPushes
    /\ IF ok
       THEN /\ workers' = [workers EXCEPT ![w] =
                              [pc |-> "test", batch |-> <<>>, last_sync |-> now,
                               attempts |-> 0]]
            /\ delivered' = delivered \cup Range(workers[w].batch)
            /\ UNCHANGED <<sync_queue, failedPushes>>
       ELSE /\ failedPushes' = [k \in DOMAIN failedPushes |->
                                   IF k \in Range(workers[w].batch)
                                   THEN failedPushes[k] + 1 ELSE failedPushes[k]]
            /\ IF workers[w].pc = "push_item"
               THEN /\ sync_queue' = sync_queue \o
                                        Requeued(workers[w].batch, workers[w].attempts)
                    /\ workers' = [workers EXCEPT ![w] =
                                      [@ EXCEPT !.pc = "test", !.batch = <<>>,
                                                !.attempts = 0]]
               ELSE /\ workers' = [workers EXCEPT ![w] = [@ EXCEPT !.pc = "test"]]
                    /\ UNCHANGED sync_queue
            /\ UNCHANGED delivered
    /\ UNCHANGED <<storeVars, running, stop_event, fs_app, fs_running, fs_stop_event,
                   gps_running, main_pc, last_cleanup, fixes, restarts, enqueued>>

\* the slot of the thread FirebaseSync.start() creates
FreeSlot == CHOOSE w \in 1..MaxWorkers : workers[w].pc = "none" /\
                \A v \in 1..(w - 1) : workers[v].pc # "none"

(***************************************************************************)
(* FleetTracker: the producer callback, the main loop, stop and restart.   *)
(***************************************************************************)
\* the dict the tracker passes for its k-th fix: latitude, longitude,
\* timestamp and the extra attribute 'valid': True
GpsLocation(k) ==
    [fix |-> k, complete |-> TRUE,
     extra |-> [name |-> "valid", kind |-> "bool", keys |-> "none", items |-> <<1>>]]

\* handle_gps_update(location), called by the tracking thread for each fix:
\* insert_location(location) with the default priority, whose result is
\* ignored, then queue_data(location)
handle_gps_update(outcome) ==
    /\ gps_running
    /\ fixes < MaxFix
    /\ fixes' = fixes + 1
    /\ insert_location(GpsLocation(fixes + 1), DefaultPriority, outcome)
    /\ sync_queue' = Append(sync_queue, QueueItem(fixes + 1, 0))
    /\ enqueued' = IF InsertReturn(GpsLocation(fixes + 1), outcome)
                   THEN enqueued \cup {fixes + 1} ELSE enqueued
    /\ UNCHANGED <<running, stop_event, fs_app, fs_running, fs_stop_event, workers,
                   gps_running, main_pc, last_cleanup, restarts, delivered,
                   failedPushes>>

\* while self.running and not self.stop_event.is_set()
main_loop_test ==
    /\ main_pc = "test"
    /\ main_pc' = IF running /\ ~stop_event THEN "cleanup" ELSE "exited"
    /\ UNCHANGED <<storeVars, running, stop_event, fs_app, fs_running, fs_stop_event,
                   sync_queue, workers, gps_running, last_cleanup, fixes, restarts,
                   enqueued, delivered, failedPushes>>

\* if time.time() - last_cleanup > cleanup_interval: cleanup_old_data(retention_days)
main_loop_cleanup(outcome) ==
    /\ main_pc = "cleanup"
    /\ main_pc' = "health"
    /\ IF now - last_cleanup > CleanupInterval
       THEN /\ cleanup_old_data(RetentionDaysConfig, outcome)
            /\ last_cleanup' = now
       ELSE /\ outcome = "ok"
            /\ UNCHANGED <<storeVars, last_cleanup>>
    /\ UNCHANGED <<running, stop_event, fs_app, fs_running, fs_stop_event, sync_queue,
                   workers, gps_running, fixes, restarts, enqueued, delivered,
                   failedPushes>>

\* health_check(), then stop_event.wait(30): a tracker that is not running is
\* started again (gps_ok: start_tracking() could enable the GPS); a FirebaseSync
\* that is not running is started again by FirebaseSync.start(), which
\* initializes the app if needed (init_ok), sets running, clears stop_event and
\* starts a new sync_worker thread
health_check(gps_ok, init_ok) ==
    /\ main_pc = "health"
    /\ main_pc' = "test"
    /\ gps_running' = (gps_running \/ gps_ok)
    /\ IF ~fs_running /\ (fs_app \/ init_ok)
       THEN /\ \E w \in 1..MaxWorkers : workers[w].pc = "none"
            /\ fs_app' = TRUE
            /\ fs_running' = TRUE
            /\ fs_stop_event' = FALSE
            /\ workers' = [workers EXCEPT ![FreeSlot] = NewWorker]
       ELSE UNCHANGED <<fs_app, fs_running, fs_stop_event, workers>>
    /\ UNCHANGED <<storeVars, running, stop_event, sync_queue, last_cleanup, fixes,
                   restarts, enqueued, delivered, failedPushes>>

\* FleetTracker.stop(), called once by the signal handler or by the shutdown
\* thread of the power manager: running = False, stop_event.set(),
\* stop_tracking(), firebase_sync.stop(), data_buffer.close()
stop ==
    /\ ~stop_event
    /\ running' = FALSE
    /\ stop_event' = TRUE
    /\ gps_running' = FALSE
    /\ fs_running' = FALSE
    /\ fs_stop_event' = TRUE
    /\ conn' = "closed"
    /\ db' = disk
    /\ UNCHANGED <<disk, now, tz, faults, okInserts, assigned, lock, calls, reclaimed, marked, retried,
                   fs_app, sync_queue, workers, main_pc, last_cleanup, fixes, restarts,
                   enqueued, delivered, failedPushes>>

\* the state FleetTracker.start() sets up before its main loop, on the database
\* file as it is: init_ok says whether FirebaseSync.initialize() succeeded
Started(init_ok) ==
    /\ running' = TRUE
    /\ stop_event' = FALSE
    /\ fs_app' = init_ok
    /\ fs_running' = init_ok
    /\ fs_stop_event' = FALSE
    /\ sync_queue' = <<>>
    /\ workers' = [w \in 1..MaxWorkers |-> IF w = 1 /\ init_ok THEN NewWorker ELSE NoWorker]
    /\ gps_running' = TRUE
    /\ main_pc' = "test"
    /\ last_cleanup' = now
    /\ conn' = "open"
    /\ db' = disk

\* main() is run again after the agent was stopped (the process has ended): the
\* objects are constructed anew, the database file is opened as it was left
Restart(init_ok) ==
    /\ stop_event
    /\ restarts < MaxRestarts
    /\ restarts' = restarts + 1
    /\ Started(init_ok)
    /\ UNCHANGED <<disk, now, tz, faults, okInserts, assigned, lock, calls, reclaimed, marked, retried, fixes,
                   enqueued, delivered, failedPushes>>

(***************************************************************************)
(* Spec: the agent.  Its device runs on UTC (the agent never marks a row    *)
(* synced, so no cutoff of its cleanup ever selects a row).                *)
(***************************************************************************)
Init ==
    /\ db = EmptyDb
    /\ disk = EmptyDb
    /\ conn = "open"
    /\ now = StartTime
    /\ tz = 0
    /\ faults = 0
    /\ okInserts = 0
    /\ assigned = <<>>
    /\ lock = "free"
    /\ calls = NoCalls
    /\ reclaimed = 0
    /\ marked = {}
    /\ retried = [i \in 1..(MaxRows + 1) |-> 0]
    /\ running = TRUE
    /\ stop_event = FALSE
    /\ fs_app \in BOOLEAN
    /\ fs_running = fs_app
    /\ fs_stop_event = FALSE
    /\ sync_queue = <<>>
    /\ workers = [w \in 1..MaxWorkers |->
                     IF w = 1 /\ fs_app
                     THEN [pc |-> "test", batch |-> <<>>, last_sync |-> StartTime,
                           attempts |-> 0]
                     ELSE NoWorker]
    /\ gps_running = TRUE
    /\ main_pc = "test"
    /\ last_cleanup = StartTime
    /\ fixes = 0
    /\ restarts = 0
    /\ enqueued = {}
    /\ delivered = {}
    /\ failedPushes = [k \in 1..MaxFix |-> 0]

Producer == \E o \in WriteOutcomes : handle_gps_update(o)

Worker ==
    \E w \in 1..MaxWorkers :
        \/ sync_worker_test(w)
        \/ sync_worker_get(w)
        \/ \E ok \in BOOLEAN : sync_worker_push(w, ok)

MainLoop ==
    \/ main_loop_test
    \/ \E o \in WriteOutcomes \cup {"vacuum_error"} : main_loop_cleanup(o)
    \/ \E gps_ok, init_ok \in BOOLEAN : health_check(gps_ok, init_ok)

AgentTick == Tick /\ UNCHANGED agentVars

Next ==
    \/ Producer
    \/ Worker
    \/ MainLoop
    \/ stop
    \/ \E init_ok \in BOOLEAN : Restart(init_ok)
    \/ AgentTick

Spec == Init /\ [][Next]_vars

\* FairSpec: every thread that can take a step eventually takes one (the
\* sync_worker threads, the main loop, the tracking thread), and a push that is
\* attempted again and again eventually succeeds
FairSpec ==
    /\ Spec
    /\ \A w \in 1..MaxWorkers :
           /\ WF_vars(sync_worker_test(w))
           /\ WF_vars(sync_worker_get(w))
           /\ WF_vars(\E ok \in BOOLEAN : sync_worker_push(w, ok))
           /\ SF_vars(sync_worker_push(w, TRUE))
    /\ WF_vars(MainLoop)
    /\ WF_vars(handle_gps_update("ok"))

(***************************************************************************)
(* RetentionSpec: the main loop of the agent and its tracker over a store  *)
(* whose rows a client of the DataBuffer marks synced (the agent itself    *)
(* never does).  Only the cleanup of the main loop meets storage failures. *)
(***************************************************************************)
RetentionProducer == handle_gps_update("ok")

RetentionClient ==
    \E ids \in IdLists : mark_synced(ids, "ok") /\ UNCHANGED agentVars

RetentionNext ==
    \/ RetentionProducer
    \/ RetentionClient
    \/ MainLoop
    \/ AgentTick

RetentionSpec == Init /\ [][RetentionNext]_vars

(***************************************************************************)
(* Properties of the store (StoreSpec).                                    *)
(***************************************************************************)
\* the row of the connection's view a returned dict was built from
RowOf(dict) == CHOOSE r \in db.rows : r.id = dict.id

\* C5: in every reachable store state, get_unsynced_batch(limit) returns at most
\* `limit` records and no record that is synced or has retry_count >= 5.
C5_ClaimFilter ==
    \A n \in Limits :
        LET b == BatchReturn(n, "ok")
        IN  /\ Len(b) <= n
            /\ \A i \in 1..Len(b) :
                   \A r \in db.rows :
                       r.id = b[i].id => r.synced # 1 /\ r.retry_count < 5

\* a synced row, a dead-lettered row and an eligible row are stored, and the
\* widest claim returns the eligible one alone
C5_Witness ==
    /\ \E r \in db.rows : r.synced = 1
    /\ \E r \in db.rows : r.synced = 0 /\ r.retry_count >= 5
    /\ Len(BatchReturn(MaxRows, "ok")) = 1
    /\ Len(BatchReturn(1, "ok")) = 1

\* the order the claim states: priority descending, then creation order (ids are
\* assigned in creation order)
Precedes(a, b) ==
    \/ a.priority > b.priority
    \/ a.priority = b.priority /\ a.id < b.id

\* C6: get_unsynced_batch(limit) returns the eligible rows in the order priority
\* descending, then oldest first, and exactly the first `limit` of them; rows of
\* priorities 0, 0, 5 inserted in that order give, for limit 2, the priority-5 row
\* and then the first priority-0 row, also when all were inserted in one tick.
C6_ClaimOrder ==
    /\ \A n \in Limits :
           LET b == BatchReturn(n, "ok")
               E == {r \in db.rows : r.synced = 0 /\ r.retry_count < MaxRetry}
           IN  /\ Len(b) = Min(n, Cardinality(E))
               /\ \A i \in 1..Len(b) : RowOf(b[i]) \in E
               /\ \A i, j \in 1..Len(b) : i < j => Precedes(RowOf(b[i]), RowOf(b[j]))
               /\ \A r \in E : (\A i \in 1..Len(b) : b[i].id # r.id) =>
                                  \A i \in 1..Len(b) : Precedes(RowOf(b[i]), r)
    /\ \A x, y, z \in db.rows :
           ( /\ x.id < y.id /\ y.id < z.id
             /\ x.priority = 0 /\ y.priority = 0 /\ z.priority = 5
             /\ {r \in db.rows : r.synced = 0 /\ r.retry_count < MaxRetry} = {x, y, z} )
           => LET b == BatchReturn(2, "ok")
              IN  Len(b) = 2 /\ b[1].id = z.id /\ b[2].id = x.id

\* rows of priorities 0, 0, 5 inserted in that order within one tick are the
\* eligible rows
C6_Witness ==
    \E x, y, z \in db.rows :
        /\ x.id < y.id /\ y.id < z.id
        /\ x.priority = 0 /\ y.priority = 0 /\ z.priority = 5
        /\ x.ts = y.ts /\ y.ts = z.ts
        /\ {r \in db.rows : r.synced = 0 /\ r.retry_count < MaxRetry} = {x, y, z}
        /\ Len(BatchReturn(2, "ok")) = 2

C8_DeadLetter ==
    \A r \in db.rows :
        (r.synced = 0 /\ retried[r.id] >= 5) =>
            /\ \A n \in Limits :
                   \A i \in 1..Len(BatchReturn(n, "ok")) :
                       BatchReturn(n, "ok")[i].id # r.id
            /\ r \in FailedRows(db)
            /\ r \in UnsyncedRows(db)
            /\ r \in TotalRows(db)
            /\ StatsReturn("ok").failed >= 1

\* increment_retry returned True five times for a pending row, and another row
\* is still claimed
C8_Witness ==
    /\ \E r \in db.rows : r.synced = 0 /\ retried[r.id] = 5
    /\ Len(BatchReturn(MaxRows, "ok")) > 0

\* C9: get_stats().total equals the insert_location calls that returned True
\* minus the rows cleanup_old_data deleted.
C9_TotalIsInsertsMinusDeleted ==
    StatsReturn("ok").total = okInserts - reclaimed

\* C10: cleanup_old_data(days) deletes no unsynced row and no synced row that is
\* younger than the retention window (created less than `days` days ago).
C10_CleanupOnlyExpired ==
    [][\A d \in RetentionDays, o \in WriteOutcomes \cup {"vacuum_error"} :
          cleanup_old_data(d, o) =>
              \A r \in db.rows \ db'.rows :
                  r.synced = 1 /\ InstantOf(r.ts) <= now - d * TicksPerDay]_vars

\* C11: cleanup_old_data(0) deletes every row that is synced at the call,
\* whatever its creation time and whatever the offset of the local clock from
\* UTC, and deletes no unsynced row.
C11_CleanupZeroDeletesAllSynced ==
    [][cleanup_old_data(0, "ok") =>
          /\ \A r \in db'.rows : r.synced = 0
          /\ \A r \in db.rows : r.synced = 0 => r \in db'.rows]_vars

\* C12: a mark_synced(ids) call that returns True sets synced = 1 for exactly the
\* rows named by ids: unknown ids and an empty list change nothing, no row is
\* created or deleted, and the synced flag of the other rows and the
\* retry_count, priority, timestamp and data of all rows stay as they were.
C12_MarkSyncedFrame ==
    [][\A ids \in IdLists :
          (/\ conn = "open"
           /\ UNCHANGED <<now, faults, okInserts, reclaimed, retried>>
           /\ mark_synced(ids, "ok")) =>
              /\ {r.id : r \in db'.rows} = {r.id : r \in db.rows}
              /\ Cardinality(db'.rows) = Cardinality(db.rows)
              /\ \A r \in db.rows :
                     [r EXCEPT !.synced = IF r.id \in ids THEN 1 ELSE r.synced]
                         \in db'.rows]_vars

\* a row was marked synced by a call that returned True, while another row,
\* retried before, is still unsynced with its retry_count
C12_Witness ==
    /\ \E r \in db.rows : r.id \in marked /\ r.synced = 1
    /\ \E r \in db.rows : r.id \notin marked /\ r.synced = 0 /\ r.retry_count > 0

\* C13: a mark_synced call that reports failure leaves none of its ids synced,
\* neither in what the next call on the store sees nor in what a later commit
\* writes: every synced row was named by a mark_synced call that returned True.
C13_FailedMarkSyncsNothing ==
    \A r \in db.rows \cup disk.rows : r.synced = 1 => r.id \in marked

\* C14: insert_location of a dict without latitude or longitude returns False
\* and leaves the store unchanged: no row is added, get_stats() and every
\* stored row stay as they were, in the connection's view and on disk.
C14_IncompleteInsertRejected ==
    [][\A l \in Locations, p \in Priorities, o \in WriteOutcomes :
          (~l.complete /\ insert_location(l, p, o)) =>
              /\ ~InsertReturn(l, o)
              /\ db' = db
              /\ disk' = disk
              /\ StatsReturn("ok")' = StatsReturn("ok")]_vars

\* rows are stored and a further insert_location call is possible; called with
\* a dict without latitude it returns False
C14_Witness ==
    /\ conn = "open"
    /\ db.rows # {}
    /\ db.seq < MaxRows
    /\ \E l \in Locations : ~l.complete /\ ~InsertReturn(l, "ok")

\* C15: the ids given to rows by successful insert_location calls are strictly
\* increasing in call order (so unique and never reused), also after
\* cleanup_old_data deleted rows, and no two stored rows share an id.
C15_IdsNeverReused ==
    /\ \A i, j \in 1..Len(assigned) : i < j => assigned[i] < assigned[j]
    /\ \A r, q \in db.rows : r.id = q.id => r = q
    /\ \A r, q \in disk.rows : r.id = q.id => r = q

\* cleanup deleted every row stored so far, the row with the largest id
\* included, and a row was inserted successfully after that
C15_Witness ==
    /\ reclaimed > 0
    /\ Len(assigned) >= 2
    /\ \A i \in 1..(Len(assigned) - 1) : \A r \in db.rows : r.id # assigned[i]
    /\ \E r \in db.rows : r.id = assigned[Len(assigned)]

\* C16: a get_unsynced_batch call, successful or not, leaves every row and its
\* synced flag and retry_count as they were, so a second get_unsynced_batch
\* with the same limit and no store mutation in between returns the same list.
C16_ClaimNonDestructive ==
    [][(/\ vars' # vars
        /\ \E n \in Limits, o \in ReadOutcomes : get_unsynced_batch(n, o)) =>
           /\ db' = db
           /\ disk' = disk
           /\ \A m \in Limits : BatchReturn(m, "ok")' = BatchReturn(m, "ok")]_vars

\* several rows are eligible, one of them retried before, and a claim with
\* limit 1 returns one of them
C16_Witness ==
    /\ Len(BatchReturn(MaxRows, "ok")) >= 2
    /\ Len(BatchReturn(1, "ok")) = 1
    /\ \E r \in db.rows : r.synced = 0 /\ r.retry_count > 0 /\ r.retry_count < MaxRetry
    /\ faults > 0

\* values json.dumps and json.loads map back to themselves: strings, numbers,
\* booleans, None, lists, and dicts whose keys are strings
JsonNative(v) ==
    \/ v.kind \in {"str", "int", "bool", "none", "list"}
    \/ v.kind = "dict" /\ v.keys = "str"

\* C17 as stated: every row get_unsynced_batch returns carries its extra
\* attribute with the value it was inserted with.
C17_ExtraRoundTrip ==
    \A n \in Limits :
        \A i \in 1..Len(BatchReturn(n, "ok")) :
            BatchReturn(n, "ok")[i].extra = RowOf(BatchReturn(n, "ok")[i]).extra_in

\* C17, amended: every row get_unsynced_batch returns carries its extra
\* attribute with the value it was inserted with, when that value is a JSON
\* value (a string, number, boolean, None, list, or dict with string keys).
C17_JsonExtraRoundTrip ==
    \A n \in Limits :
        \A i \in 1..Len(BatchReturn(n, "ok")) :
            LET sent == RowOf(BatchReturn(n, "ok")[i]).extra_in
            IN  JsonNative(sent) => BatchReturn(n, "ok")[i].extra = sent

\* a claim returns a row inserted with "123.4" and a row inserted with a dict,
\* each with its attribute
C17_Witness ==
    LET b == BatchReturn(MaxRows, "ok")
    IN  /\ \E i \in 1..Len(b) : b[i].extra.kind = "str" /\
                                  b[i].extra.items = <<49, 50, 51, 46, 52>>
        /\ \E i \in 1..Len(b) : b[i].extra.kind = "dict" /\
                                  RowOf(b[i]).extra_in = b[i].extra

\* C27: a call of a writing method that returns its failure value (False for
\* insert_location, mark_synced and increment_retry, 0 for cleanup_old_data)
\* leaves the table unchanged, as the connection sees it and as committed.
C27_FailedCallChangesNothing ==
    [][/\ \A l \in Locations, p \in Priorities, o \in WriteOutcomes :
              (insert_location(l, p, o) /\ ~InsertReturn(l, o)) =>
                  UNCHANGED <<db, disk>>
       /\ \A ids \in IdLists, o \in WriteOutcomes :
              (mark_synced(ids, o) /\ (conn = "closed" \/ o # "ok")) =>
                  UNCHANGED <<db, disk>>
       /\ \A ids \in RetryIdLists, o \in WriteOutcomes :
              (increment_retry(ids, o) /\ (conn = "closed" \/ o # "ok")) =>
                  UNCHANGED <<db, disk>>
       /\ \A d \in RetentionDays, o \in WriteOutcomes \cup {"vacuum_error"} :
              (cleanup_old_data(d, o) /\ CleanupReturn(d, o) = 0) =>
                  UNCHANGED <<db, disk>>]_vars

\* C31: in every state get_stats() reports failed <= unsynced <= total, and
\* every row it counts as failed (retry_count >= 5) is a row it counts as
\* unsynced, in whatever order mark_synced and increment_retry reached it.
C31_FailedArePending ==
    /\ FailedRows(db) \subseteq UnsyncedRows(db)
    /\ StatsReturn("ok").failed <= StatsReturn("ok").unsynced
    /\ StatsReturn("ok").unsynced <= StatsReturn("ok").total

\* C32: every dict get_unsynced_batch returns has the id, the timestamp and
\* the core fields of the row it was built from, whatever keys the inserted
\* dict carried, so the ids of a batch are the ids of the rows selected.
C32_ReturnedIdsAreRowIds ==
    \A n \in Limits :
        LET s == SqlSelectUnsynced(db, n)
            b == BatchReturn(n, "ok")
        IN  /\ \A i \in 1..Len(b) : /\ b[i].id = s[i].id
                                    /\ b[i].timestamp = s[i].ts
                                    /\ b[i].loc = s[i].loc
            /\ Known({b[i].id : i \in 1..Len(b)}) = {s[i].id : i \in 1..Len(s)}

(***************************************************************************)
(* Properties of the agent (Spec, FairSpec).                               *)
(***************************************************************************)
\* the dispatcher is running: FirebaseSync.running is set and a sync_worker
\* thread is alive
DispatcherUp == fs_running /\ \E w \in 1..MaxWorkers : workers[w].pc # "none"

\* C1: when the dispatcher keeps running and the sink eventually accepts pushes,
\* every record whose insert_location call returned True is eventually part of a
\* batch_upload that returns True.
C1_EventualDelivery ==
    (<>[]DispatcherUp) => \A k \in 1..MaxFix : (k \in enqueued) ~> (k \in delivered)

\* C2: after a batch_upload of the dispatcher returned True, every record of the
\* batch is synced in the store.
C2_PushedAreSynced ==
    \A r \in db.rows : r.loc \in delivered => r.synced = 1

\* C3: after a batch_upload of the dispatcher failed, the retry_count of every
\* record of the batch is one higher, and none of them is synced: the
\* retry_count of a stored record is the number of failed uploads that held it.
C3_FailedAreRetried ==
    \A r \in db.rows :
        /\ r.retry_count = failedPushes[r.loc]
        /\ (r.loc \notin delivered /\ failedPushes[r.loc] > 0) => r.synced = 0

\* C4: the dispatcher uploads no record unsuccessfully more than max_retry (5)
\* times.
C4_BoundedRetry ==
    \A k \in 1..MaxFix : failedPushes[k] <= 5

Pushing(w) == workers[w].pc \in {"push_item", "push_idle"}

\* C18: the dispatcher uploads its batch only when the batch holds at least
\* batch_size records or at least sync_interval has passed since its last
\* successful upload, and never earlier.
C18_FlushOnlyOnTrigger ==
    \A w \in 1..MaxWorkers :
        Pushing(w) =>
            \/ Len(workers[w].batch) >= BatchSize
            \/ now - workers[w].last_sync >= SyncInterval

\* C19: the batch of a sync_worker thread never holds more than batch_size
\* records, whatever uploads failed before, in the item branch or after the
\* queue timeout.
C19_BoundedBatch ==
    \A w \in 1..MaxWorkers : Len(workers[w].batch) <= BatchSize

\* a full batch is about to be uploaded, and it holds a record that was part of
\* a failed upload before
C19_Witness ==
    \E w \in 1..MaxWorkers :
        /\ workers[w].pc = "push_item"
        /\ Len(workers[w].batch) = BatchSize
        /\ \E i \in 1..Len(workers[w].batch) : failedPushes[workers[w].batch[i]] > 0

\* C20: a sync_worker thread that is inside batch_upload does not hold
\* DataBuffer.lock, so insert_location and get_unsynced_batch of other threads
\* are not blocked by the upload.
C20_PushHoldsNoStoreLock ==
    \A w \in 1..MaxWorkers :
        Pushing(w) =>
            /\ lock = "free"
            /\ (gps_running /\ fixes < MaxFix) => ENABLED handle_gps_update("ok")
            /\ \A n \in Limits : ENABLED get_unsynced_batch(n, "ok")

\* a thread went into the upload of a pending batch when the queue was empty,
\* and while it is in there another fix was inserted into the store and queued
C20_Witness ==
    \E w \in 1..MaxWorkers :
        /\ workers[w].pc = "push_idle"
        /\ \E i \in 1..Len(sync_queue) :
               /\ sync_queue[i].attempts = 0
               /\ \E r \in db.rows : r.loc = sync_queue[i].data

\* C21: once FleetTracker.stop() has run, the tracker and the dispatcher stay
\* stopped whatever the main loop does next: FirebaseSync.running and
\* GPSTracker.running stay False, so no sync_worker thread is started or kept
\* alive after the stop.
C21_StopStaysStopped ==
    stop_event => (~fs_running /\ ~gps_running)

\* fix k was delivered, its row is stored and older than the retention window,
\* and a cleanup of the running main loop is due that no storage failure can hit
ReclaimDue(k) ==
    /\ k \in delivered
    /\ running /\ ~stop_event /\ main_pc # "exited"
    /\ faults = MaxFaults
    /\ now - last_cleanup > CleanupInterval
    /\ \E r \in db.rows :
           r.loc = k /\ now - InstantOf(r.ts) > RetentionDaysConfig * TicksPerDay

\* C23: while the agent runs, a record that was part of a successful
\* batch_upload and is older than the retention window is eventually deleted
\* from the store by the cleanup of the main loop.
C23_DeliveredAreReclaimed ==
    \A k \in 1..MaxFix :
        ReclaimDue(k) ~> (stop_event \/ \A r \in db.rows : r.loc # k)

\* C25: a failed batch_upload ends nothing: the thread is back at its loop test
\* with FirebaseSync.running as it was, the other threads, the store and the
\* delivered records are untouched, the items that were on the queue are still
\* there in their places, and what the failure adds to the queue or counts
\* concerns records of the failed batch only.
C25_FailedPushNotFatal ==
    [][\A w \in 1..MaxWorkers :
          sync_worker_push(w, FALSE) =>
              LET batch == Range(workers[w].batch)
              IN  /\ workers'[w].pc = "test"
                  /\ fs_running' = fs_running /\ fs_stop_event' = fs_stop_event
                  /\ \A v \in 1..MaxWorkers : v # w => workers'[v] = workers[v]
                  /\ UNCHANGED <<storeVars, delivered, enqueued, running, main_pc>>
                  /\ Len(sync_queue') >= Len(sync_queue)
                  /\ SubSeq(sync_queue', 1, Len(sync_queue)) = sync_queue
                  /\ \A i \in (Len(sync_queue) + 1)..Len(sync_queue') :
                         sync_queue'[i].data \in batch
                  /\ \A k \in 1..MaxFix :
                         k \notin batch => failedPushes'[k] = failedPushes[k]]_vars

\* the upload of the first fix failed, and the running thread went on and
\* delivered the second fix, which was never part of a failed upload
C25_Witness ==
    /\ failedPushes[1] > 0
    /\ failedPushes[2] = 0
    /\ 2 \in delivered
    /\ restarts = 0
    /\ DispatcherUp

\* the ids of the rows of a table
Ids(d) == {r.id : r \in d.rows}

\* C26: in the table the store works on, a row appears only in a step of
\* insert_location (the tracker's callback), disappears only in a step of
\* cleanup_old_data (the main loop), and a row that stays keeps every column
\* but synced and retry_count, retry_count never going down.
C26_RecordLifecycle ==
    [][/\ (Ids(db') \ Ids(db) # {}) => \E o \in WriteOutcomes : handle_gps_update(o)
       /\ (Ids(db) \ Ids(db') # {}) =>
              \E o \in WriteOutcomes \cup {"vacuum_error"} : main_loop_cleanup(o)
       /\ \A r \in db.rows, q \in db'.rows :
              r.id = q.id =>
                  /\ q = [r EXCEPT !.synced = q.synced, !.retry_count = q.retry_count]
                  /\ q.retry_count >= r.retry_count]_vars

\* C28: the main loop calls cleanup_old_data(retention_days) only when more
\* than cleanup_interval has passed since its last call, and never after
\* FleetTracker.stop() has run.
C28_RetentionSchedule ==
    [][(/\ main_pc = "cleanup"
        /\ now - last_cleanup > CleanupInterval
        /\ \E o \in WriteOutcomes \cup {"vacuum_error"} : main_loop_cleanup(o)) =>
           /\ ~stop_event
           /\ last_cleanup' = now
           /\ now - last_cleanup >= CleanupInterval]_vars

\* the fixes that are on the queue, and those in the batch of a thread
Queued == {sync_queue[i].data : i \in 1..Len(sync_queue)}

Batched == UNION {Range(workers[w].batch) : w \in 1..MaxWorkers}

\* C29: as long as the agent was never stopped (one sync_worker thread at
\* most), every fix handed to queue_data is on the queue, in the batch of the
\* thread, or was part of a batch_upload that returned True.
C29_NoLossInDispatcher ==
    (~stop_event /\ restarts = 0) =>
        \A k \in 1..fixes : k \in Queued \/ k \in Batched \/ k \in delivered

\* no time has passed, so every upload of a batch that was not full was one
\* after the queue timeout: the first fix failed there and was kept, failed
\* again together with the second in a full batch, and both are back on the queue
C29_Witness ==
    /\ ~stop_event /\ restarts = 0
    /\ now = StartTime
    /\ failedPushes[1] = 2
    /\ failedPushes[2] = 1
    /\ Queued = {1, 2}
    /\ \A i \in 1..Len(sync_queue) : sync_queue[i].attempts >= 1

\* C30: at most one sync_worker thread is alive at any time, whatever calls of
\* FirebaseSync.start and FirebaseSync.stop were made.
C30_SingleWorker ==
    Cardinality({w \in 1..MaxWorkers : workers[w].pc # "none"}) <= 1

(***************************************************************************)
(* Properties of the retention loop (RetentionSpec).                       *)
(***************************************************************************)
\* C24: when VACUUM fails after the cleanup of the main loop deleted rows, the
\* main loop goes on to its health check and keeps running, and the rows deleted
\* are gone from the connection's view and from the committed table.
C24_VacuumFailureNotFatal ==
    [][main_loop_cleanup("vacuum_error") =>
          /\ main_pc' = "health" /\ running' /\ ~stop_event' /\ conn' = "open"
          /\ db'.rows = db.rows \ Expired(db, Cutoff(now, tz, RetentionDaysConfig))
          /\ Cardinality(db'.rows) < Cardinality(db.rows)
          /\ disk' = db']_vars

\* the one cleanup of the run deleted rows and was hit by the one storage
\* failure, and the main loop has come round to its cleanup position again
C24_Witness ==
    /\ faults = MaxFaults
    /\ reclaimed > 0
    /\ main_pc = "cleanup"
    /\ running /\ ~stop_event
    /\ db = disk
    /\ db.seq > Cardinality(db.rows)

(***************************************************************************)
(* Properties of the calling threads (ThreadsSpec).                        *)
(***************************************************************************)
\* C22: at most one thread is inside a DataBuffer method at a time, and while a
\* thread is inside, the table is what the thread found when it entered, changed
\* by its own statement only: every call acts on the table as one step, in the
\* order in which the calls took the lock.
C22_StoreSerialized ==
    /\ \A t, u \in Threads : (Inside(t) /\ Inside(u)) => t = u
    /\ \A t \in Threads :
           Inside(t) =>
               /\ lock = t
               /\ db = calls[t].view
               /\ disk = calls[t].file

\* the dispatcher is between its UPDATE and its commit, on a table that holds
\* rows the producer inserted and committed before
C22_Witness ==
    /\ calls["dispatcher"].pc = "executed"
    /\ calls["dispatcher"].op.name = "mark_synced"
    /\ db # disk
    /\ Cardinality(disk.rows) >= 2
    /\ \E r \in db.rows : r.synced = 1

====
